---- MODULE Spec2Model ----
(***************************************************************************)
(* Duplicate detection of BigQuery_Approach2_Semantic_Detective:           *)
(* DuplicateDetector._merge_candidates and DuplicateDetector.group_        *)
(* duplicates (src/.../duplicate_detector.py).                             *)
(*                                                                         *)
(* Scores and confidences are Python floats in [0,1]; the model keeps them *)
(* in hundredths (0.85 is 85, the boost 0.1 is 10, the cap 1.0 is 100).    *)
(* A SKU is a string; sorted() on SKUs is the order of SkuOrder.           *)
(***************************************************************************)
EXTENDS Integers, Sequences, FiniteSets, TLC

\* Longest candidate list handed to _merge_candidates / group_duplicates.
MaxCandidates == 3

SkuOrder ==
    <<"A", "A1", "A2", "B", "B1", "C", "D", "P-M", "P-S", "Q1", "Q2", "Q3", "Q4", "Q5">>

SKUs == {SkuOrder[i] : i \in 1..Len(SkuOrder)}

\* attribute_weights and the name bonus, in hundredths
brand_weight == 25
size_weight == 15
price_weight == 5
name_bonus == 20
fuzzy_threshold == 50
sku_pattern_score == 85
name_pattern_score == 80
identifier_score == 100
reason_boost == 10
confidence_cap == 100
default_min_confidence == 85
likely_duplicate == 90

\* dataclass DuplicateCandidate
DuplicateCandidate(s1, s2, sim, attrs, conf, why) ==
    [sku1 |-> s1, sku2 |-> s2, similarity_score |-> sim,
     matching_attributes |-> attrs, confidence |-> conf, reason |-> why]

\* the candidate _find_by_identifiers appends for two rows sharing a upc
IdentifierCandidate(s1, s2) ==
    DuplicateCandidate(s1, s2, identifier_score, [upc |-> TRUE],
                       identifier_score, "Exact upc match: 999")

\* match_score of _find_by_fuzzy_attributes for a pair whose brands match and
\* whose names are similar (no pair without both reaches the threshold)
FuzzyScore(size_match, price_match) ==
    brand_weight + (IF size_match THEN size_weight ELSE 0)
                 + (IF price_match THEN price_weight ELSE 0) + name_bonus

\* the candidate _find_by_fuzzy_attributes appends for such a pair
FuzzyCandidate(s1, s2, size_match, price_match) ==
    DuplicateCandidate(s1, s2, FuzzyScore(size_match, price_match),
                       [brand |-> TRUE, size |-> size_match, price |-> price_match],
                       FuzzyScore(size_match, price_match),
                       "Fuzzy attribute matching")

\* the candidates of _find_by_patterns
SkuPatternCandidate(s1, s2) ==
    DuplicateCandidate(s1, s2, sku_pattern_score, [sku_pattern |-> TRUE],
                       sku_pattern_score, "Similar SKU pattern: P")

NamePatternCandidate(s1, s2) ==
    DuplicateCandidate(s1, s2, name_pattern_score, [name_pattern |-> TRUE],
                       name_pattern_score, "Similar name pattern")

\* The candidates the lists are built from: what the strategies emit for a
\* catalog slice over the SKUs A, B, C, D (a SKU repeated on two rows gives the
\* reversed pair (B,A) and the self pair (A,A)).
CandidateUniverse ==
    { c \in { IdentifierCandidate("A", "B"),
              FuzzyCandidate("A", "B", TRUE, FALSE),
              NamePatternCandidate("A", "B"),
              SkuPatternCandidate("A", "B"),
              FuzzyCandidate("B", "A", FALSE, TRUE),
              NamePatternCandidate("B", "A"),
              IdentifierCandidate("B", "C"),
              SkuPatternCandidate("B", "C"),
              FuzzyCandidate("B", "C", TRUE, TRUE),
              NamePatternCandidate("A", "C"),
              SkuPatternCandidate("C", "D"),
              IdentifierCandidate("A", "A") } :
        c.similarity_score >= fuzzy_threshold }

MinConfidences == {default_min_confidence, likely_duplicate}

VARIABLES candidates, final_candidates, group_input, min_confidence, groups, pc,
          products_df, products_before, embeddings_df, similarity_threshold,
          embedding_candidates, identifier_candidates, attribute_candidates,
          pattern_candidates, fuzzy_pairs, recommendation, duplicate_groups,
          size_args, size_matches,
          dfs_graph, dfs_nodes,
          dfs_node_index, dfs_visited, dfs_group, dfs_stack, dfs_added,
          _vector_engine_instance, engines, engine_calls

\* the catalog, the outputs of the four strategies and the recommendation
catalog_vars ==
    <<products_df, products_before, embeddings_df, similarity_threshold,
      embedding_candidates, identifier_candidates, attribute_candidates,
      pattern_candidates, fuzzy_pairs, recommendation, duplicate_groups>>

\* the arguments and results of the calls of single functions
engine_vars == <<_vector_engine_instance, engines, engine_calls>>

side_vars ==
    <<size_args, size_matches, dfs_graph, dfs_nodes,
      dfs_node_index, dfs_visited, dfs_group, dfs_stack, dfs_added, engine_vars>>

vars ==
    <<candidates, final_candidates, group_input, min_confidence, groups, pc,
      catalog_vars, side_vars>>

----------------------------------------------------------------------------
(* _merge_candidates *)

SkuRank(s) == CHOOSE i \in 1..Len(SkuOrder) : SkuOrder[i] = s

\* faulty variant: the key keeps the candidate's own orientation
PairKey_unsorted(c) == <<c.sku1, c.sku2>>

\* key = tuple(sorted([candidate.sku1, candidate.sku2]))
PairKey(c) ==
    IF SkuRank(c.sku1) <= SkuRank(c.sku2) THEN <<c.sku1, c.sku2>>
                                          ELSE <<c.sku2, c.sku1>>

SeqRange(s) == {s[i] : i \in 1..Len(s)}

RECURSIVE PairKeys(_)
\* the keys of pair_map, in insertion order (a dict keeps it)
PairKeys(cands) ==
    IF cands = <<>> THEN <<>>
    ELSE LET front == PairKeys(SubSeq(cands, 1, Len(cands) - 1))
             key == PairKey(cands[Len(cands)])
         IN  IF key \in SeqRange(front) THEN front ELSE Append(front, key)

\* pair_map[key]
PairCandidates(cands, key) == SelectSeq(cands, LAMBDA c : PairKey(c) = key)

\* all_matches.update(candidate.matching_attributes)
DictUpdate(d, e) ==
    [k \in DOMAIN d \cup DOMAIN e |-> IF k \in DOMAIN e THEN e[k] ELSE d[k]]

RECURSIVE AllMatches(_)
AllMatches(pair_candidates) ==
    IF pair_candidates = <<>> THEN <<>>
    ELSE DictUpdate(AllMatches(SubSeq(pair_candidates, 1, Len(pair_candidates) - 1)),
                    pair_candidates[Len(pair_candidates)].matching_attributes)

Max(S) == CHOOSE x \in S : \A y \in S : y <= x

Min2(a, b) == IF a <= b THEN a ELSE b

\* faulty variant: the similarity of the last candidate seen, not the maximum
MaxSimilarity_last(pair_candidates) ==
    pair_candidates[Len(pair_candidates)].similarity_score

MaxSimilarity(pair_candidates) ==
    Max({pair_candidates[i].similarity_score : i \in 1..Len(pair_candidates)})

Reasons(pair_candidates) ==
    {pair_candidates[i].reason : i \in 1..Len(pair_candidates)}

\* faulty variant: only the reasons beyond the first boost the confidence
ConfidenceBoost_beyond_first(pair_candidates) ==
    (Cardinality({pair_candidates[i].reason : i \in 1..Len(pair_candidates)}) - 1)
        * reason_boost

ConfidenceBoost(pair_candidates) ==
    Cardinality(Reasons(pair_candidates)) * reason_boost

FinalConfidence(pair_candidates) ==
    Min2(MaxSimilarity(pair_candidates) + ConfidenceBoost(pair_candidates),
         confidence_cap)

\* the record appended to final_candidates for one pair; its reason is the
\* "; "-join of set(reasons), kept as that set
MergedCandidate(key, pair_candidates) ==
    DuplicateCandidate(key[1], key[2], MaxSimilarity(pair_candidates),
                       AllMatches(pair_candidates),
                       FinalConfidence(pair_candidates),
                       Reasons(pair_candidates))

\* faulty variant: the sort without reverse=True
InsertByConfidence_ascending(sorted, x) ==
    LET k == Cardinality({i \in 1..Len(sorted) :
                             sorted[i].confidence <= x.confidence})
    IN  SubSeq(sorted, 1, k) \o <<x>> \o SubSeq(sorted, k + 1, Len(sorted))

\* list.sort(key=confidence, reverse=True) is stable: x goes behind every
\* element already placed whose confidence is >= its own
InsertByConfidence(sorted, x) ==
    LET k == Cardinality({i \in 1..Len(sorted) :
                             sorted[i].confidence >= x.confidence})
    IN  SubSeq(sorted, 1, k) \o <<x>> \o SubSeq(sorted, k + 1, Len(sorted))

RECURSIVE SortByConfidence(_)
SortByConfidence(list) ==
    IF list = <<>> THEN <<>>
    ELSE InsertByConfidence(SortByConfidence(SubSeq(list, 1, Len(list) - 1)),
                            list[Len(list)])

_merge_candidates(cands) ==
    LET keys == PairKeys(cands)
        unsorted == [i \in 1..Len(keys) |->
                        MergedCandidate(keys[i], PairCandidates(cands, keys[i]))]
    IN  SortByConfidence(unsorted)

----------------------------------------------------------------------------
(* group_duplicates *)

\* faulty variant: no filter by confidence
HighConfidence_unfiltered(cands, min_conf) == cands

HighConfidence(cands, min_conf) ==
    SelectSeq(cands, LAMBDA c : c.confidence >= min_conf)

RECURSIVE GraphNodes(_)
\* the keys of graph, in insertion order: sku1 then sku2 of each candidate
GraphNodes(high) ==
    IF high = <<>> THEN <<>>
    ELSE LET front == GraphNodes(SubSeq(high, 1, Len(high) - 1))
             c == high[Len(high)]
             with1 == IF c.sku1 \in SeqRange(front) THEN front
                      ELSE Append(front, c.sku1)
         IN  IF c.sku2 \in SeqRange(with1) THEN with1 ELSE Append(with1, c.sku2)

\* graph[node]
Graph(high) ==
    [n \in SeqRange(GraphNodes(high)) |->
        {high[i].sku2 : i \in {j \in 1..Len(high) : high[j].sku1 = n}}
        \cup {high[i].sku1 : i \in {j \in 1..Len(high) : high[j].sku2 = n}}]

RECURSIVE dfs(_, _, _, _), dfs_neighbors(_, _, _, _)

\* faulty variant: the guard reads group and visited is never added to
dfs_unmarked(node, group, visited, graph) ==
    IF node \in group THEN [visited |-> visited, group |-> group]
    ELSE dfs_neighbors(graph[node], group \cup {node}, visited, graph)

\* faulty variant: the neighbours are added without being explored
dfs_neighbors_direct(todo, group, visited, graph) ==
    [visited |-> visited \cup todo, group |-> group \cup todo]

\* dfs(node, group) with the enclosing visited set threaded through
dfs(node, group, visited, graph) ==
    IF node \in visited THEN [visited |-> visited, group |-> group]
    ELSE dfs_neighbors(graph[node], group \cup {node}, visited \cup {node}, graph)

\* for neighbor in graph[node]: dfs(neighbor, group)
dfs_neighbors(todo, group, visited, graph) ==
    IF todo = {} THEN [visited |-> visited, group |-> group]
    ELSE LET n == CHOOSE x \in todo : TRUE
             r == dfs(n, group, visited, graph)
         IN  dfs_neighbors(todo \ {n}, r.group, r.visited, graph)

RECURSIVE ComponentsLoop(_, _, _, _)
\* for node in graph: if node not in visited: ... groups.append(group)
ComponentsLoop(nodes, visited, found, graph) ==
    IF nodes = <<>> THEN found
    ELSE IF Head(nodes) \in visited
         THEN ComponentsLoop(Tail(nodes), visited, found, graph)
         ELSE LET r == dfs(Head(nodes), {}, visited, graph)
              IN  ComponentsLoop(Tail(nodes), r.visited, Append(found, r.group), graph)

group_duplicates(cands, min_conf) ==
    LET high == HighConfidence(cands, min_conf)
    IN  ComponentsLoop(GraphNodes(high), {}, <<>>, Graph(high))

----------------------------------------------------------------------------
(* Text.  A brand string is the tuple of its characters, so that lower(),   *)
(* strip() and the substring test "a in b" are computed on it.              *)

UpperChars ==
    <<"A", "B", "C", "D", "E", "F", "G", "H", "I", "J", "K", "L", "M",
      "N", "O", "P", "Q", "R", "S", "T", "U", "V", "W", "X", "Y", "Z">>

LowerChars ==
    <<"a", "b", "c", "d", "e", "f", "g", "h", "i", "j", "k", "l", "m",
      "n", "o", "p", "q", "r", "s", "t", "u", "v", "w", "x", "y", "z">>

LowerChar(ch) ==
    IF \E i \in 1..Len(UpperChars) : UpperChars[i] = ch
    THEN LowerChars[CHOOSE i \in 1..Len(UpperChars) : UpperChars[i] = ch]
    ELSE ch

\* str.lower()
str_lower(s) == [i \in 1..Len(s) |-> LowerChar(s[i])]

RECURSIVE str_strip(_)
\* str.strip()
str_strip(s) ==
    IF s = <<>> THEN s
    ELSE IF Head(s) = " " THEN str_strip(Tail(s))
    ELSE IF s[Len(s)] = " " THEN str_strip(SubSeq(s, 1, Len(s) - 1))
    ELSE s

\* a in b, for strings
IsSubstring(a, b) ==
    \E i \in 0..(Len(b) - Len(a)) : SubSeq(b, i + 1, i + Len(a)) = a

\* self.brand_variations: the variation lists
brand_variations ==
    { {<<"n", "i", "k", "e">>,
       <<"n", "i", "k", "e", " ", "i", "n", "c">>,
       <<"n", "i", "k", "e", " ", "i", "n", "c", "o", "r", "p", "o", "r", "a", "t", "e", "d">>},
      {<<"a", "d", "i", "d", "a", "s">>,
       <<"a", "d", "i", "d", "a", "s", " ", "a", "g">>,
       <<"a", "d", "i", "d", "a", "s", " ", "o", "r", "i", "g", "i", "n", "a", "l", "s">>},
      {<<"a", "p", "p", "l", "e">>,
       <<"a", "p", "p", "l", "e", " ", "i", "n", "c">>,
       <<"a", "p", "p", "l", "e", " ", "i", "n", "c", "o", "r", "p", "o", "r", "a", "t", "e", "d">>},
      {<<"s", "a", "m", "s", "u", "n", "g">>,
       <<"s", "a", "m", "s", "u", "n", "g", " ", "e", "l", "e", "c", "t", "r", "o", "n", "i", "c", "s">>,
       <<"s", "a", "m", "s", "u", "n", "g", " ", "g", "r", "o", "u", "p">>},
      {<<"s", "o", "n", "y">>,
       <<"s", "o", "n", "y", " ", "c", "o", "r", "p", "o", "r", "a", "t", "i", "o", "n">>,
       <<"s", "o", "n", "y", " ", "c", "o", "r", "p">>} }

\* faulty variant: no substring rule
_match_brand_no_substring(brand1, brand2) ==
    \/ brand1 = brand2
    \/ \E variations \in brand_variations :
          brand1 \in variations /\ brand2 \in variations

_match_brand(brand1, brand2) ==
    IF brand1 = brand2 THEN TRUE
    ELSE IF \E variations \in brand_variations :
               brand1 \in variations /\ brand2 \in variations
         THEN TRUE
    ELSE IF IsSubstring(brand1, brand2) \/ IsSubstring(brand2, brand1) THEN TRUE
    ELSE FALSE

----------------------------------------------------------------------------
(* Sizes, prices and names.  A size is the string of the cell; a missing    *)
(* cell is NaN, which _match_size sees as str(nan) = "nan".  Magnitudes are *)
(* in hundredths; a conversion factor is the fraction num/den.              *)

NaN == "nan"

\* the size strings of the catalogs below, with str(size).lower()
size_lower ==
    [s \in {"16 oz", "16 OZ", "473 ml", "16.05 oz", "1 lb", "2.2 lb", "1 kg", "M", "nan"} |->
        IF s = "16 OZ" THEN "16 oz" ELSE IF s = "M" THEN "m" ELSE s]

\* re.match(r'(\d+(?:\.\d+)?)\s*([a-zA-Z]*)', str(size)): float(group(1)) in
\* hundredths and group(2).lower(); matched is FALSE when there is no match
size_parse ==
    [s \in DOMAIN size_lower |->
        CASE s = "16 oz"    -> [matched |-> TRUE, val |-> 1600, unit |-> "oz"]
          [] s = "16 OZ"    -> [matched |-> TRUE, val |-> 1600, unit |-> "oz"]
          [] s = "473 ml"   -> [matched |-> TRUE, val |-> 47300, unit |-> "ml"]
          [] s = "16.05 oz" -> [matched |-> TRUE, val |-> 1605, unit |-> "oz"]
          [] s = "1 lb"     -> [matched |-> TRUE, val |-> 100, unit |-> "lb"]
          [] s = "2.2 lb"   -> [matched |-> TRUE, val |-> 220, unit |-> "lb"]
          [] s = "1 kg"     -> [matched |-> TRUE, val |-> 100, unit |-> "kg"]
          [] OTHER          -> [matched |-> FALSE, val |-> 0, unit |-> ""]]

\* conversions of _match_size
conversions ==
    [p \in {<<"oz", "ml">>, <<"ml", "oz">>, <<"lb", "kg">>, <<"kg", "lb">>,
            <<"in", "cm">>, <<"cm", "in">>} |->
        CASE p = <<"oz", "ml">> -> [num |-> 295735, den |-> 10000]
          [] p = <<"ml", "oz">> -> [num |-> 33814, den |-> 1000000]
          [] p = <<"lb", "kg">> -> [num |-> 453592, den |-> 1000000]
          [] p = <<"kg", "lb">> -> [num |-> 220462, den |-> 100000]
          [] p = <<"in", "cm">> -> [num |-> 254, den |-> 100]
          [] p = <<"cm", "in">> -> [num |-> 393701, den |-> 1000000]]

Abs(x) == IF x < 0 THEN -x ELSE x

\* the absolute tolerance 0.1 of _match_size, in hundredths
size_tolerance == 10

\* abs(val1 * factor - val2) < 0.1
ConvertedWithinTolerance(val1, factor, val2) ==
    Abs(val1 * factor.num - val2 * factor.den) < size_tolerance * factor.den

_match_size(size1, size2) ==
    IF size1 = "" \/ size2 = "" THEN FALSE
    ELSE IF size_lower[size1] = size_lower[size2] THEN TRUE
    ELSE LET match1 == size_parse[size1]
             match2 == size_parse[size2]
         IN  IF match1.matched /\ match2.matched
             THEN IF match1.unit = match2.unit
                  THEN Abs(match1.val - match2.val) < size_tolerance
                  ELSE IF <<match1.unit, match2.unit>> \in DOMAIN conversions
                       THEN ConvertedWithinTolerance(
                                match1.val, conversions[<<match1.unit, match2.unit>>],
                                match2.val)
                       ELSE FALSE
             ELSE FALSE

\* a price cell: a float, NaN when the cell is missing
Float(v) == [nan |-> FALSE, v |-> v]

FloatNaN == [nan |-> TRUE, v |-> 0]

\* tolerance=0.10 of the call in _find_by_fuzzy_attributes, in hundredths
price_tolerance == 10

\* _match_price; abs(p1 - p2) / max(p1, p2) <= tolerance is decided without
\* dividing: by a positive max it is 100 * diff <= tolerance * max, by a
\* negative max the quotient is <= 0; a NaN makes every comparison false
_match_price(price1, price2, tolerance) ==
    IF (~price1.nan /\ price1.v = 0) \/ (~price2.nan /\ price2.v = 0) THEN FALSE
    ELSE IF price1.nan \/ price2.nan THEN FALSE
    ELSE LET diff == Abs(price1.v - price2.v)
             top == IF price1.v >= price2.v THEN price1.v ELSE price2.v
         IN  IF top > 0 THEN 100 * diff <= tolerance * top ELSE TRUE

\* A product name is the tuple of its whitespace-separated words.
\* str.lower() of the words of the catalogs below
word_lower(w) ==
    CASE w = "Wireless" -> "wireless"
      [] w = "Headphones" -> "headphones"
      [] w = "Mens" -> "mens"
      [] w = "Womens" -> "womens"
      [] w = "Running" -> "running"
      [] w = "Shoe" -> "shoe"
      [] OTHER -> w

name_lower(name) == [i \in 1..Len(name) |-> word_lower(name[i])]

\* _calculate_name_similarity: len(intersection) / len(union) as a fraction
_calculate_name_similarity(name1, name2) ==
    LET words1 == {word_lower(name1[i]) : i \in 1..Len(name1)}
        words2 == {word_lower(name2[i]) : i \in 1..Len(name2)}
    IN  IF words1 = {} \/ words2 = {} THEN [num |-> 0, den |-> 1]
        ELSE [num |-> Cardinality(words1 \cap words2),
              den |-> Cardinality(words1 \cup words2)]

\* name_sim > 0.8
NameSimilar(name_sim) == 10 * name_sim.num > 8 * name_sim.den

----------------------------------------------------------------------------
(* The catalog.  A product is a dict: a function from its keys to values.   *)
(* products_df is the DataFrame built from the list of dicts: its columns   *)
(* are the union of the keys, and a cell whose key the row lacks is NaN.    *)

\* Longest catalog handed to detect_duplicates_multi_strategy.
MaxRows == 3

\* an inventory_count cell: an int, or None (a NULL of the table)
Value(v) == [none |-> FALSE, v |-> v]

None == [none |-> TRUE, v |-> 0]

ProductRecords ==
    << [sku |-> "A1", upc |-> "999", brand_name |-> <<"N", "i", "k", "e">>, price |-> 50],
       [sku |-> "A2", upc |-> "999", brand_name |-> <<"N", "i", "k", "e", " ", "I", "n", "c">>, price |-> 52],
       [sku |-> "B1", brand_name |-> <<"A", "d", "i", "d", "a", "s">>, price |-> 80],
       [sku |-> "P-S", brand_name |-> <<"S", "o", "n", "y">>,
        product_name |-> <<"Wireless", "Headphones">>, size |-> "16 oz",
        price |-> 100, color |-> "Black", inventory_count |-> Value(5)],
       [sku |-> "P-M", brand_name |-> <<" ", "S", "O", "N", "Y", " ", "C", "o", "r", "p", "o", "r", "a", "t", "i", "o", "n">>,
        product_name |-> <<"wireless", "headphones">>, size |-> "473 ml",
        price |-> 95, color |-> "black", inventory_count |-> Value(7)],
       [sku |-> "Q1", product_name |-> <<"wireless", "headphones">>,
        size |-> "16.05 oz", price |-> 120],
       [sku |-> "Q2", brand_name |-> <<"A", "d", "i", "d", "a", "s", " ", "A", "G">>,
        product_name |-> <<"Mens", "Running", "Shoe">>, size |-> "M",
        price |-> -10],
       [sku |-> "Q3", brand_name |-> <<"a", "d", "i", "d", "a", "s", " ", "o", "r", "i", "g", "i", "n", "a", "l", "s">>,
        product_name |-> <<"Womens", "Running", "Shoe", "16", "oz">>,
        price |-> -10, color |-> "", material |-> " "],
       [sku |-> "Q4", upc |-> "111", model_number |-> "X1",
        brand_name |-> <<"S", "a", "m", "s", "u", "n", "g">>, price |-> 0,
        inventory_count |-> Value(3)],
       [sku |-> "Q5", upc |-> "111", model_number |-> "X1",
        brand_name |-> <<"S", "o", "n", "y", " ", "M", "u", "s", "i", "c">>, price |-> 40,
        inventory_count |-> None] >>

\* the embedding vector of each SKU in embeddings_df
EmbeddingVectors ==
    [s \in {ProductRecords[i].sku : i \in 1..Len(ProductRecords)} |->
        CASE s \in {"A1", "A2"} -> <<1, 0>>
          [] s = "B1" -> <<0, 1>>
          [] s = "P-S" -> <<3, 4>>
          [] s = "P-M" -> <<4, 3>>
          [] OTHER -> <<1, 1>>]

\* similarity_threshold default of detect_duplicates_multi_strategy, hundredths
default_similarity_threshold == 85

\* pd.DataFrame(records)
DataFrame(records) ==
    [columns |-> UNION {DOMAIN records[i] : i \in 1..Len(records)},
     rows |-> records]

RECURSIVE Selections(_)
\* the lists of n distinct products, in every order
Selections(n) ==
    IF n = 0 THEN {<<>>}
    ELSE {Append(s, i) : s \in Selections(n - 1), i \in 1..Len(ProductRecords)}

Catalogs ==
    {[k \in 1..Len(s) |-> ProductRecords[s[k]]] :
        s \in {t \in UNION {Selections(n) : n \in 1..MaxRows} :
                  \A a, b \in 1..Len(t) : a # b => t[a] # t[b]}}

notna(row, col) == col \in DOMAIN row

RECURSIVE PairsFrom(_, _, _)
\* for i in range(n): for j in range(i + 1, n), from (i, j) on, 1-based
PairsFrom(i, j, n) ==
    IF i >= n THEN <<>>
    ELSE IF j > n THEN PairsFrom(i + 1, i + 2, n)
    ELSE <<<<i, j>>>> \o PairsFrom(i, j + 1, n)

RECURSIVE Flatten(_)
Flatten(lists) ==
    IF lists = <<>> THEN <<>> ELSE Head(lists) \o Flatten(Tail(lists))

----------------------------------------------------------------------------
(* _find_by_embedding_similarity *)

\* the placeholder: no candidate, whatever the embeddings and the threshold
_find_by_embedding_similarity(embeddings, threshold) == <<>>

----------------------------------------------------------------------------
(* _find_by_identifiers *)

identifier_columns == <<"upc", "ean", "isbn", "asin", "model_number">>

\* the identifier values of the catalogs, in the order groupby sorts them
IdentifierOrder == <<"111", "999", "X1">>

\* f"Exact {col} match: {identifier}"
IdentifierReason(col, identifier) ==
    CASE col = "upc" /\ identifier = "111" -> "Exact upc match: 111"
      [] col = "upc" /\ identifier = "999" -> "Exact upc match: 999"
      [] col = "model_number" /\ identifier = "X1" -> "Exact model_number match: X1"

\* the rows of one group of df[df[col].notna()].groupby(col), in row order
IdentifierGroup(df, col, identifier) ==
    {i \in 1..Len(df.rows) : notna(df.rows[i], col) /\ df.rows[i][col] = identifier}

\* faulty variant: every pair is appended in both orientations
IdentifierGroupCandidates_both_ways(df, col, identifier) ==
    LET group == IdentifierGroup(df, col, identifier)
        pairs == SelectSeq(PairsFrom(1, 2, Len(df.rows)),
                           LAMBDA p : p[1] \in group /\ p[2] \in group)
    IN  Flatten([k \in 1..Len(pairs) |->
            << DuplicateCandidate(df.rows[pairs[k][1]].sku, df.rows[pairs[k][2]].sku,
                                  identifier_score, [c \in {col} |-> TRUE],
                                  identifier_score, IdentifierReason(col, identifier)),
               DuplicateCandidate(df.rows[pairs[k][2]].sku, df.rows[pairs[k][1]].sku,
                                  identifier_score, [c \in {col} |-> TRUE],
                                  identifier_score, IdentifierReason(col, identifier)) >>])

\* the candidates of one group: if len(group) > 1, every pair i < j
IdentifierGroupCandidates(df, col, identifier) ==
    LET group == IdentifierGroup(df, col, identifier)
        pairs == SelectSeq(PairsFrom(1, 2, Len(df.rows)),
                           LAMBDA p : p[1] \in group /\ p[2] \in group)
    IN  [k \in 1..Len(pairs) |->
            DuplicateCandidate(df.rows[pairs[k][1]].sku, df.rows[pairs[k][2]].sku,
                               identifier_score, [c \in {col} |-> TRUE],
                               identifier_score, IdentifierReason(col, identifier))]

\* the candidates of one column
IdentifierColumnCandidates(df, col) ==
    IF col \in df.columns
    THEN Flatten([k \in 1..Len(IdentifierOrder) |->
                     IdentifierGroupCandidates(df, col, IdentifierOrder[k])])
    ELSE <<>>

_find_by_identifiers(df) ==
    Flatten([k \in 1..Len(identifier_columns) |->
                IdentifierColumnCandidates(df, identifier_columns[k])])

----------------------------------------------------------------------------
(* _find_by_fuzzy_attributes *)

text_fields == <<"brand_name", "product_name", "color", "material">>

\* f'{field}_normalized'
NormalizedColumn(field) ==
    CASE field = "brand_name" -> "brand_name_normalized"
      [] field = "product_name" -> "product_name_normalized"
      [] field = "color" -> "color_normalized"
      [] field = "material" -> "material_normalized"

\* str.lower().strip() of the color and material strings of the catalogs
text_lower(s) == IF s = "Black" THEN "black" ELSE IF s = " " THEN "" ELSE s

\* df[field].fillna('').str.lower().str.strip(), for one row
NormalizedCell(row, field) ==
    CASE field = "brand_name" ->
            IF notna(row, field) THEN str_strip(str_lower(row[field])) ELSE <<>>
      [] field = "product_name" ->
            IF notna(row, field) THEN name_lower(row[field]) ELSE <<>>
      [] OTHER ->
            IF notna(row, field) THEN text_lower(row[field]) ELSE ""

RECURSIVE AddNormalized(_, _)
\* for field in text_fields: if field in df.columns: df[...] = ..., from the
\* k-th field on
AddNormalized(df, k) ==
    IF k > Len(text_fields) THEN df
    ELSE LET field == text_fields[k]
         IN  IF field \in df.columns
             THEN AddNormalized(
                    [columns |-> df.columns \cup {NormalizedColumn(field)},
                     rows |-> [i \in 1..Len(df.rows) |->
                                  (NormalizedColumn(field) :> NormalizedCell(df.rows[i], field))
                                  @@ df.rows[i]]],
                    k + 1)
             ELSE AddNormalized(df, k + 1)

\* row.get('size'): the cell, NaN when the row has no size
SizeCell(row) == IF notna(row, "size") THEN row["size"] ELSE NaN

\* row.get('price', 0): the cell, NaN when the row has no price
PriceCell(row) == IF notna(row, "price") THEN Float(row["price"]) ELSE FloatNaN

\* faulty variant: a pair is appended only above the threshold
FuzzyEmits_strictly_above(match_score) == match_score > fuzzy_threshold

\* a threshold lowered by the weight of the price
FuzzyEmits_without_price(match_score) == match_score >= fuzzy_threshold - price_weight

\* if match_score >= 0.5
FuzzyEmits(match_score) == match_score >= fuzzy_threshold

\* the body of the pair loop for rows i < j of the normalized df: matches,
\* match_score and whether a candidate is appended
FuzzyPair(df, i, j) ==
    LET row1 == df.rows[i]
        row2 == df.rows[j]
        has_brand == "brand_name_normalized" \in df.columns
        has_size == "size" \in df.columns
        has_price == "price" \in df.columns
        has_name == "product_name_normalized" \in df.columns
        brand_match == has_brand /\ _match_brand(row1["brand_name_normalized"],
                                                 row2["brand_name_normalized"])
        size_match == has_size /\ _match_size(SizeCell(row1), SizeCell(row2))
        price_match == has_price /\ _match_price(PriceCell(row1), PriceCell(row2),
                                                 price_tolerance)
        name_match == has_name /\ NameSimilar(_calculate_name_similarity(
                                      row1["product_name_normalized"],
                                      row2["product_name_normalized"]))
        keys == (IF has_brand THEN {"brand"} ELSE {})
                \cup (IF has_size THEN {"size"} ELSE {})
                \cup (IF has_price THEN {"price"} ELSE {})
        matches == [k \in keys |->
                       CASE k = "brand" -> brand_match
                         [] k = "size" -> size_match
                         [] k = "price" -> price_match]
        match_score == (IF brand_match THEN brand_weight ELSE 0)
                       + (IF size_match THEN size_weight ELSE 0)
                       + (IF price_match THEN price_weight ELSE 0)
                       + (IF name_match THEN name_bonus ELSE 0)
    IN  [i |-> i, j |-> j, matches |-> matches, match_score |-> match_score,
         emitted |-> FuzzyEmits(match_score)]

\* every pair of the loop, in loop order
FuzzyPairs(df) ==
    LET pairs == PairsFrom(1, 2, Len(df.rows))
    IN  [k \in 1..Len(pairs) |-> FuzzyPair(df, pairs[k][1], pairs[k][2])]

\* the candidates appended, given the df with its normalized columns
FuzzyCandidates(df) ==
    LET emitted == SelectSeq(FuzzyPairs(df), LAMBDA p : p.emitted)
    IN  [k \in 1..Len(emitted) |->
            DuplicateCandidate(df.rows[emitted[k].i].sku, df.rows[emitted[k].j].sku,
                               emitted[k].match_score, emitted[k].matches,
                               emitted[k].match_score, "Fuzzy attribute matching")]

\* _find_by_fuzzy_attributes writes the normalized columns into the caller's
\* df and returns the candidates
_find_by_fuzzy_attributes(df) ==
    LET normalized == AddNormalized(df, 1)
    IN  [df |-> normalized, pairs |-> FuzzyPairs(normalized),
         candidates |-> FuzzyCandidates(normalized)]

----------------------------------------------------------------------------
(* _find_by_patterns *)

\* the two re.sub calls on the SKU, for the SKUs of the catalogs: a trailing
\* -S, -M, -L, -XL, -XXL or -digits and a trailing colour name are removed
SkuBasePattern(sku) == IF sku \in {"P-S", "P-M"} THEN "P" ELSE sku

\* f"Similar SKU pattern: {pattern}"
SkuPatternReason(pattern) ==
    IF pattern = "P" THEN "Similar SKU pattern: P" ELSE "Similar SKU pattern"

RECURSIVE DistinctInOrder(_)
\* the keys of a dict filled from the list, in insertion order
DistinctInOrder(list) ==
    IF list = <<>> THEN <<>>
    ELSE LET front == DistinctInOrder(SubSeq(list, 1, Len(list) - 1))
         IN  IF list[Len(list)] \in SeqRange(front) THEN front
             ELSE Append(front, list[Len(list)])

\* the candidates for the groups of rows that share a key; key_of[i] is the
\* key of row i, or <<>> when the row is in no group, reason_of[key] the reason
PatternCandidates(df, key_of, score, attribute, reason_of) ==
    LET members == SelectSeq([i \in 1..Len(df.rows) |-> i],
                             LAMBDA i : key_of[i] # <<>>)
        patterns == DistinctInOrder([k \in 1..Len(members) |-> key_of[members[k]]])
        pairs == PairsFrom(1, 2, Len(df.rows))
    IN  Flatten([k \in 1..Len(patterns) |->
            LET group == SelectSeq(pairs, LAMBDA p : /\ key_of[p[1]] = patterns[k]
                                                     /\ key_of[p[2]] = patterns[k])
            IN  [n \in 1..Len(group) |->
                    DuplicateCandidate(df.rows[group[n][1]].sku,
                                       df.rows[group[n][2]].sku,
                                       score, [c \in {attribute} |-> TRUE],
                                       score, reason_of[patterns[k]])]])

GenderWords ==
    {"men", "mens", "women", "womens", "kid", "kids", "boy", "boys", "girl", "girls"}

SizeWords ==
    {"small", "medium", "large", "x", "l", "s", "xx", "xl", "xs", "sx", "sl", "ss"}

UnitWords == {"oz", "ml", "lb", "kg", "g"}

\* the words of the catalogs that are numbers (\d+(\.\d+)?)
NumberWords == {"16"}

RECURSIVE RemoveNumberUnit(_)
\* re.sub(r'\b\d+(\.\d+)?\s*(oz|ml|lb|kg|g)\b', '', clean_name)
RemoveNumberUnit(words) ==
    IF Len(words) < 2 THEN words
    ELSE IF words[1] \in NumberWords /\ words[2] \in UnitWords
         THEN RemoveNumberUnit(SubSeq(words, 3, Len(words)))
         ELSE <<words[1]>> \o RemoveNumberUnit(Tail(words))

\* clean_name of a row: str(row['product_name']).lower() without the gender
\* words, the size words and the number-unit tokens, whitespace normalized
CleanName(row) ==
    LET name == IF notna(row, "product_name") THEN name_lower(row["product_name"])
                ELSE <<NaN>>
        no_gender == SelectSeq(name, LAMBDA w : w \notin GenderWords)
        no_size == SelectSeq(no_gender, LAMBDA w : w \notin SizeWords)
    IN  RemoveNumberUnit(no_size)

NamePatternReason == "Similar name pattern"

_find_by_patterns(df) ==
    LET sku_patterns == [i \in 1..Len(df.rows) |-> <<SkuBasePattern(df.rows[i].sku)>>]
        name_patterns == [i \in 1..Len(df.rows) |-> CleanName(df.rows[i])]
        by_sku == IF "sku" \in df.columns
                  THEN PatternCandidates(
                           df, sku_patterns, sku_pattern_score, "sku_pattern",
                           [p \in SeqRange(sku_patterns) |-> SkuPatternReason(p[1])])
                  ELSE <<>>
        by_name == IF "product_name" \in df.columns
                   THEN PatternCandidates(
                            df, name_patterns, name_pattern_score, "name_pattern",
                            [p \in SeqRange(name_patterns) |-> NamePatternReason])
                   ELSE <<>>
    IN  by_sku \o by_name

----------------------------------------------------------------------------
(* _create_merge_recommendation (vector_engine.py) *)

RECURSIVE Sum(_)
Sum(list) == IF list = <<>> THEN 0 ELSE Head(list) + Sum(Tail(list))

\* faulty variant: the first value instead of the mean
Mean_first(values) == [num |-> Head(values), den |-> 1]

\* np.mean(values) as the fraction sum / len
Mean(values) == [num |-> Sum(values), den |-> Len(values)]

\* v is None, for the value under a key: only inventory_count cells can be
IsNone(product, key) == key = "inventory_count" /\ product[key].none

\* not str(v).strip(): of the values of the catalogs, the blank strings
IsBlank(product, key) == key \in {"color", "material"} /\ product[key] \in {"", " "}

\* sum(1 for v in product.values() if v is not None and str(v).strip())
CompletenessScore(product) ==
    Cardinality({key \in DOMAIN product :
                    ~ IsNone(product, key) /\ ~ IsBlank(product, key)})

\* faulty variant: the last product with the highest score
PrimaryIdx_last(products) ==
    CHOOSE n \in 1..Len(products) :
        /\ \A m \in 1..Len(products) :
              CompletenessScore(products[m]) <= CompletenessScore(products[n])
        /\ \A m \in (n + 1)..Len(products) :
              CompletenessScore(products[m]) < CompletenessScore(products[n])

\* np.argmax(completeness_scores): the first product with the highest score
PrimaryIdx(products) ==
    CHOOSE n \in 1..Len(products) :
        /\ \A m \in 1..Len(products) :
              CompletenessScore(products[m]) <= CompletenessScore(products[n])
        /\ \A m \in 1..(n - 1) :
              CompletenessScore(products[m]) < CompletenessScore(products[n])

\* the keys merged: those of the primary product but sku and inventory_count
MergedKeys(products) ==
    DOMAIN products[PrimaryIdx(products)] \ {"sku", "inventory_count"}

\* values.count of the value of product n under key: the products holding it
ValueCount(products, key, n) ==
    Cardinality({m \in 1..Len(products) :
                    key \in DOMAIN products[m] /\ products[m][key] = products[n][key]})

\* the products whose value max(set(values), key=values.count) may return: a
\* most frequent value; among equally frequent values the iteration order of
\* set(values), which the string hash seed fixes, decides
MostCommonAt(products, key) ==
    {n \in 1..Len(products) :
        /\ key \in DOMAIN products[n]
        /\ \A m \in 1..Len(products) :
              key \in DOMAIN products[m]
                  => ValueCount(products, key, m) <= ValueCount(products, key, n)}

\* the most frequent values of a key, each named by the first product holding it
PickOptions(products, key) ==
    {n \in MostCommonAt(products, key) :
        \A m \in 1..(n - 1) :
            key \in DOMAIN products[m] => products[m][key] # products[n][key]}

RECURSIVE PicksOver(_, _)
\* one most frequent value for each of the keys
PicksOver(products, keys) ==
    IF keys = {} THEN {[key \in {} |-> 0]}
    ELSE LET key == CHOOSE k \in keys : TRUE
         IN  {(key :> n) @@ rest : n \in PickOptions(products, key),
                                   rest \in PicksOver(products, keys \ {key})}

\* the choices of a most frequent value for every merged key but the price,
\* which is averaged
Picks(products) == PicksOver(products, MergedKeys(products) \ {"price"})

\* p.get('inventory_count', 0)
InventoryCell(product) ==
    IF "inventory_count" \in DOMAIN product THEN product["inventory_count"] ELSE Value(0)

\* the recommendation, where pick[key] is the product whose value
\* max(set(values), key=values.count) returned; savings is in dollars.  sum()
\* over the inventory cells raises TypeError when one of them is None
_create_merge_recommendation(products, pick) ==
    LET primary_product == products[PrimaryIdx(products)]
        inventory == [n \in 1..Len(products) |-> InventoryCell(products[n])]
        priced == SelectSeq(products, LAMBDA p : "price" \in DOMAIN p)
    IN  IF \E n \in 1..Len(products) : inventory[n].none
        THEN [raised |-> "TypeError"]
        ELSE [raised |-> "",
              primary_sku |-> primary_product.sku,
              merged_skus |-> [n \in 1..Len(products) |-> products[n].sku],
              total_inventory |-> Sum([n \in 1..Len(products) |-> inventory[n].v]),
              merged_attributes |->
                 [key \in MergedKeys(products) |->
                     IF key = "price"
                     THEN Mean([n \in 1..Len(priced) |-> priced[n].price])
                     ELSE products[pick[key]][key]],
              savings |-> (Len(products) - 1) * 50]

----------------------------------------------------------------------------
(* The calls *)

\* no catalog is loaded: the candidates are handed over as a list
NoCatalog ==
    /\ products_df = DataFrame(<<>>)
    /\ products_before = DataFrame(<<>>)
    /\ embeddings_df = <<>>
    /\ similarity_threshold = default_similarity_threshold
    /\ embedding_candidates = <<>>
    /\ identifier_candidates = <<>>
    /\ attribute_candidates = <<>>
    /\ pattern_candidates = <<>>
    /\ fuzzy_pairs = <<>>
    /\ recommendation = <<>>
    /\ duplicate_groups = <<>>

\* group_duplicates is not being stepped through
NoTraversal ==
    /\ dfs_graph = <<>>
    /\ dfs_nodes = <<>>
    /\ dfs_node_index = 1
    /\ dfs_visited = {}
    /\ dfs_group = {}
    /\ dfs_stack = <<>>
    /\ dfs_added = <<>>

\* no single function is called
\* _vector_engine_instance = None, no call of get_vector_engine yet
NoEngine ==
    /\ _vector_engine_instance = None
    /\ engines = <<>>
    /\ engine_calls = <<>>

NoSide ==
    /\ size_args = <<>>
    /\ size_matches = <<>>
    /\ NoTraversal
    /\ NoEngine

Init ==
    /\ candidates = <<>>
    /\ final_candidates = <<>>
    /\ group_input = <<>>
    /\ min_confidence = default_min_confidence
    /\ groups = <<>>
    /\ pc = "collect"
    /\ NoCatalog
    /\ NoSide

\* candidates.extend(...) in detect_duplicates_multi_strategy, one candidate
Extend(c) ==
    /\ pc = "collect"
    /\ Len(candidates) < MaxCandidates
    /\ candidates' = Append(candidates, c)
    /\ UNCHANGED <<side_vars, final_candidates, group_input, min_confidence, groups, pc, catalog_vars>>

\* final_candidates = self._merge_candidates(candidates, products_df)
Merge ==
    /\ pc = "collect"
    /\ final_candidates' = _merge_candidates(candidates)
    /\ pc' = "merged"
    /\ UNCHANGED <<side_vars, candidates, group_input, min_confidence, groups, catalog_vars>>

\* group_duplicates(final_candidates, min_confidence) on the detection result
GroupMerged(mc) ==
    /\ pc = "merged"
    /\ group_input' = final_candidates
    /\ min_confidence' = mc
    /\ groups' = group_duplicates(final_candidates, mc)
    /\ pc' = "grouped"
    /\ UNCHANGED <<side_vars, candidates, final_candidates, catalog_vars>>

\* group_duplicates(candidates, min_confidence) on an unmerged list
GroupRaw(mc) ==
    /\ pc = "collect"
    /\ group_input' = candidates
    /\ min_confidence' = mc
    /\ groups' = group_duplicates(candidates, mc)
    /\ pc' = "grouped"
    /\ UNCHANGED <<side_vars, candidates, final_candidates, catalog_vars>>

Next ==
    \/ \E c \in CandidateUniverse : Extend(c)
    \/ Merge
    \/ \E mc \in MinConfidences : GroupMerged(mc)
    \/ \E mc \in MinConfidences : GroupRaw(mc)

Spec == Init /\ [][Next]_vars

----------------------------------------------------------------------------
(* The calls on a catalog: detection, grouping, merge recommendation *)

SimilarityThresholds == {default_similarity_threshold}

\* the embeddings of the SKUs of a catalog
Embeddings(df) == [i \in 1..Len(df.rows) |-> EmbeddingVectors[df.rows[i].sku]]

CatalogInit ==
    /\ products_df \in {DataFrame(c) : c \in Catalogs}
    /\ products_before = products_df
    /\ embeddings_df = Embeddings(products_df)
    /\ similarity_threshold = default_similarity_threshold
    /\ embedding_candidates = <<>>
    /\ identifier_candidates = <<>>
    /\ attribute_candidates = <<>>
    /\ pattern_candidates = <<>>
    /\ fuzzy_pairs = <<>>
    /\ recommendation = <<>>
    /\ duplicate_groups = <<>>
    /\ candidates = <<>>
    /\ final_candidates = <<>>
    /\ group_input = <<>>
    /\ min_confidence = default_min_confidence
    /\ groups = <<>>
    /\ pc = "loaded"
    /\ NoSide

\* detect_duplicates_multi_strategy(products_df, embeddings_df, threshold):
\* the four strategies in order, each on the df the one before left, then
\* _merge_candidates
detect_duplicates_multi_strategy(threshold) ==
    LET embedding == _find_by_embedding_similarity(embeddings_df, threshold)
        identifier == _find_by_identifiers(products_df)
        attribute == _find_by_fuzzy_attributes(products_df)
        pattern == _find_by_patterns(attribute.df)
        all == embedding \o identifier \o attribute.candidates \o pattern
    IN  /\ pc = "loaded"
        /\ similarity_threshold' = threshold
        /\ embedding_candidates' = embedding
        /\ identifier_candidates' = identifier
        /\ attribute_candidates' = attribute.candidates
        /\ fuzzy_pairs' = attribute.pairs
        /\ products_df' = attribute.df
        /\ pattern_candidates' = pattern
        /\ candidates' = all
        /\ final_candidates' = _merge_candidates(all)
        /\ pc' = "merged"
        /\ UNCHANGED <<side_vars, group_input, min_confidence, groups, products_before,
                       embeddings_df, recommendation, duplicate_groups>>

\* the product dicts of a group, in catalog order
GroupProducts(group) ==
    SelectSeq(products_before.rows, LAMBDA p : p.sku \in group)

\* _create_merge_recommendation on the products of the g-th group
Recommend(g) ==
    /\ pc = "grouped"
    /\ \E pick \in Picks(GroupProducts(groups[g])) :
          recommendation' = _create_merge_recommendation(GroupProducts(groups[g]), pick)
    /\ pc' = "recommended"
    /\ UNCHANGED <<side_vars, candidates, final_candidates, group_input, min_confidence, groups,
                   products_df, products_before, embeddings_df, similarity_threshold,
                   embedding_candidates, identifier_candidates, attribute_candidates,
                   pattern_candidates, fuzzy_pairs, duplicate_groups>>

CatalogNext ==
    \/ \E threshold \in SimilarityThresholds : detect_duplicates_multi_strategy(threshold)
    \/ \E mc \in MinConfidences : GroupMerged(mc)
    \/ \E g \in 1..Len(groups) : Recommend(g)

CatalogSpec == CatalogInit /\ [][CatalogNext]_vars

----------------------------------------------------------------------------
(* Properties of group_duplicates *)

Grouped == pc = "grouped"

\* the candidates of group_input that pass the filter, as unordered links
Surviving ==
    {i \in 1..Len(group_input) : group_input[i].confidence >= min_confidence}

Linked(x, y) ==
    \E i \in Surviving :
        \/ group_input[i].sku1 = x /\ group_input[i].sku2 = y
        \/ group_input[i].sku1 = y /\ group_input[i].sku2 = x

RECURSIVE ReachFrom(_)
\* the SKUs joined to a SKU of S by a chain of surviving candidates
ReachFrom(S) ==
    LET T == S \cup {y \in SKUs : \E x \in S : Linked(x, y)}
    IN  IF T = S THEN S ELSE ReachFrom(T)

\* the SKUs that have a surviving candidate
Endpoints ==
    {group_input[i].sku1 : i \in Surviving} \cup {group_input[i].sku2 : i \in Surviving}

\* C1: the groups group_duplicates returns are pairwise disjoint: no SKU is a
\* member of two returned groups.
C1_GroupsDisjoint ==
    Grouped =>
        \A i, j \in 1..Len(groups) : i # j => groups[i] \cap groups[j] = {}

\* two groups of two SKUs each were returned at once
C1_Witness ==
    /\ Grouped
    /\ Len(groups) >= 2
    /\ \A i \in 1..Len(groups) : Cardinality(groups[i]) >= 2

\* C2: any two members of a returned group are joined by a chain of input
\* candidates whose confidence is >= min_confidence; a candidate below
\* min_confidence contributes no link.
C2_MembersChained ==
    Grouped =>
        \A g \in 1..Len(groups) :
            \A x \in groups[g] : groups[g] \subseteq ReachFrom({x})

\* a three-member group beside a candidate that fails the filter
C2_Witness ==
    /\ Grouped
    /\ \E g \in 1..Len(groups) : Cardinality(groups[g]) >= 3
    /\ \E i \in 1..Len(group_input) : i \notin Surviving

\* C3: grouping is transitive: two SKUs joined by a chain of candidates whose
\* confidence is >= min_confidence (equal to it included) are in one group,
\* whether or not a candidate for the two themselves exists or passes.
C3_Transitive ==
    Grouped =>
        \A x \in Endpoints : \A y \in ReachFrom({x}) :
            \E g \in 1..Len(groups) : {x, y} \subseteq groups[g]

\* (A,B) and (B,C) survive, one of them exactly at min_confidence, (A,C) does
\* not, and A, B, C are one group
C3_Witness ==
    /\ Grouped
    /\ Linked("A", "B") /\ Linked("B", "C") /\ ~Linked("A", "C")
    /\ \E i \in Surviving : group_input[i].confidence = min_confidence
    /\ \E g \in 1..Len(groups) : groups[g] = {"A", "B", "C"}

\* C4: every group group_duplicates returns has at least two members.
C4_GroupsHaveTwoMembers ==
    Grouped => \A g \in 1..Len(groups) : Cardinality(groups[g]) >= 2

----------------------------------------------------------------------------
(* Properties of _merge_candidates *)

Merged == pc = "merged"

\* the unordered pair of a candidate
Pair(c) == {c.sku1, c.sku2}

\* the input candidates that are evidence for the same pair as record r
Evidence(r) == {i \in 1..Len(candidates) : Pair(candidates[i]) = Pair(r)}

\* C5: _merge_candidates returns exactly one record for each unordered pair of
\* its input, (X,Y) and (Y,X) fall into the same record, no pair is dropped or
\* invented, and every record has sku1 <= sku2.
C5_OneRecordPerPair ==
    Merged =>
        /\ \A i \in 1..Len(candidates) :
              Cardinality({j \in 1..Len(final_candidates) :
                              Pair(final_candidates[j]) = Pair(candidates[i])}) = 1
        /\ \A j \in 1..Len(final_candidates) :
              /\ Evidence(final_candidates[j]) # {}
              /\ SkuRank(final_candidates[j].sku1) <= SkuRank(final_candidates[j].sku2)

\* a pair given in both orientations beside another pair
C5_Witness ==
    /\ Merged
    /\ \E i, k \in 1..Len(candidates) :
          /\ candidates[i].sku1 = candidates[k].sku2
          /\ candidates[i].sku2 = candidates[k].sku1
          /\ candidates[i].sku1 # candidates[i].sku2
    /\ Len(final_candidates) = 2

\* candidates reordered by the permutation p of its indices
Reordered(p) == [i \in 1..Len(candidates) |-> candidates[p[i]]]

\* C6: merging is order-independent: every ordering of the same candidates
\* gives the same set of merged records.
C6_OrderIndependent ==
    Merged =>
        \A p \in Permutations(1..Len(candidates)) :
            SeqRange(_merge_candidates(Reordered(p))) = SeqRange(final_candidates)

\* C7: a key carried by several candidates of a pair is resolved by logical
\* OR: the merged value is true iff some candidate of the pair has it true.
C7_AttributesOr ==
    Merged =>
        \A j \in 1..Len(final_candidates) :
            \A k \in DOMAIN final_candidates[j].matching_attributes :
                final_candidates[j].matching_attributes[k]
                    = (\E i \in Evidence(final_candidates[j]) :
                          /\ k \in DOMAIN candidates[i].matching_attributes
                          /\ candidates[i].matching_attributes[k])

\* the confidence _merge_candidates gives the pair of r in the list cands
ConfidenceIn(cands, r) ==
    LET m == _merge_candidates(cands)
        j == CHOOSE j \in 1..Len(m) : Pair(m[j]) = Pair(r)
    IN  m[j].confidence

\* cands with c inserted behind its first n elements
InsertAt(cands, n, c) ==
    SubSeq(cands, 1, n) \o <<c>> \o SubSeq(cands, n + 1, Len(cands))

\* C8: adding to a pair's evidence (in front of the list or behind it) one
\* candidate whose reason differs from every reason already present never
\* decreases the pair's merged confidence.
C8_ConfidenceMonotone ==
    Merged =>
        \A j \in 1..Len(final_candidates) :
            \A c \in CandidateUniverse :
                (/\ Pair(c) = Pair(final_candidates[j])
                 /\ c.reason \notin final_candidates[j].reason)
                => \A n \in {0, Len(candidates)} :
                      ConfidenceIn(InsertAt(candidates, n, c), c)
                          >= final_candidates[j].confidence

\* a pair merged from two reasons, with a third reason left to add
C8_Witness ==
    /\ Merged
    /\ \E j \in 1..Len(final_candidates) :
          /\ Cardinality(final_candidates[j].reason) >= 2
          /\ \E c \in CandidateUniverse :
                /\ Pair(c) = Pair(final_candidates[j])
                /\ c.reason \notin final_candidates[j].reason

\* C9: every merged record's confidence is min(max similarity_score of the
\* pair's candidates + 0.1 x number of distinct reasons, 1.0), and so lies in
\* [0,1] (0..100 in hundredths) for the candidates the strategies emit.
C9_ConfidenceFormula ==
    Merged =>
        \A j \in 1..Len(final_candidates) :
            LET ev == Evidence(final_candidates[j])
                top == CHOOSE s \in {candidates[i].similarity_score : i \in ev} :
                          \A i \in ev : candidates[i].similarity_score <= s
                n == Cardinality({candidates[i].reason : i \in ev})
                sum == top + reason_boost * n
            IN  /\ final_candidates[j].confidence
                      = (IF sum < confidence_cap THEN sum ELSE confidence_cap)
                /\ final_candidates[j].confidence >= 0
                /\ final_candidates[j].confidence <= confidence_cap

\* one record below the cap and one whose sum the cap cut
C9_Witness ==
    /\ Merged
    /\ \E j \in 1..Len(final_candidates) :
          final_candidates[j].confidence < confidence_cap
    /\ \E j \in 1..Len(final_candidates) :
          final_candidates[j].similarity_score
              + reason_boost * Cardinality(final_candidates[j].reason) > confidence_cap

\* C10: the list _merge_candidates returns is sorted by confidence in
\* non-increasing order.
C10_SortedDescending ==
    Merged =>
        \A i, j \in 1..Len(final_candidates) :
            i < j => final_candidates[i].confidence >= final_candidates[j].confidence

\* the pair met first in the input is not the first of the output
C10_Witness ==
    /\ Merged
    /\ Len(final_candidates) >= 2
    /\ Pair(final_candidates[1]) # Pair(candidates[1])
    /\ final_candidates[1].confidence > final_candidates[Len(final_candidates)].confidence

----------------------------------------------------------------------------
(* Properties of the strategies, on the catalogs *)

\* detect_duplicates_multi_strategy has returned
Detected == pc \in {"merged", "grouped", "recommended"}

\* the catalog as the caller passed it
Catalog == products_before.rows

\* the rows of the pairs of the catalog, first row before second
RowPairs == {p \in (1..Len(Catalog)) \X (1..Len(Catalog)) : p[1] < p[2]}

\* two rows hold the same non-null value in a column
SharesValue(col, i, j) ==
    /\ notna(Catalog[i], col)
    /\ notna(Catalog[j], col)
    /\ Catalog[i][col] = Catalog[j][col]

\* the identifier candidates for a pair of rows on account of a column
IdentifierHits(col, i, j) ==
    {k \in 1..Len(identifier_candidates) :
        /\ Pair(identifier_candidates[k]) = {Catalog[i].sku, Catalog[j].sku}
        /\ DOMAIN identifier_candidates[k].matching_attributes = {col}}

\* C11: every two products that hold the same non-null value in an identifier
\* column yield, for that column, exactly one candidate for the pair, with
\* similarity_score 1.0, confidence 1.0 and matching_attributes {column: true},
\* whatever their other attributes; and every identifier candidate is for two
\* products that share the value of its column.
C11_IdentifierCandidates ==
    Detected =>
        /\ \A col \in SeqRange(identifier_columns) : \A p \in RowPairs :
              IF SharesValue(col, p[1], p[2])
              THEN /\ Cardinality(IdentifierHits(col, p[1], p[2])) = 1
                   /\ \A k \in IdentifierHits(col, p[1], p[2]) :
                         /\ identifier_candidates[k].similarity_score = 100
                         /\ identifier_candidates[k].confidence = 100
                         /\ identifier_candidates[k].matching_attributes
                                = [c \in {col} |-> TRUE]
              ELSE IdentifierHits(col, p[1], p[2]) = {}
        /\ \A k \in 1..Len(identifier_candidates) :
              \E col \in SeqRange(identifier_columns) : \E p \in RowPairs :
                 k \in IdentifierHits(col, p[1], p[2])

\* C11 witness: two products that share a upc and a model_number and differ
\* in price and brand gave one candidate per column, next to a third product
\* that shares nothing and is in no identifier candidate
C11_Witness ==
    /\ Detected
    /\ Len(Catalog) = 3
    /\ \E p \in RowPairs :
          /\ SharesValue("upc", p[1], p[2])
          /\ SharesValue("model_number", p[1], p[2])
          /\ Catalog[p[1]].price # Catalog[p[2]].price
          /\ Cardinality(IdentifierHits("upc", p[1], p[2])) = 1
          /\ Cardinality(IdentifierHits("model_number", p[1], p[2])) = 1
    /\ Len(identifier_candidates) = 2

\* the fuzzy candidates appended for the rows of an entry of fuzzy_pairs
FuzzyHits(p) ==
    {k \in 1..Len(attribute_candidates) :
        /\ attribute_candidates[k].sku1 = Catalog[p.i].sku
        /\ attribute_candidates[k].sku2 = Catalog[p.j].sku}

\* C12: the fuzzy strategy emits a candidate for a pair exactly when its
\* accumulated score is at least 0.5, and the candidate's similarity_score and
\* confidence both equal that score.
C12_FuzzyThreshold ==
    Detected =>
        \A n \in 1..Len(fuzzy_pairs) :
            LET p == fuzzy_pairs[n]
            IN  IF p.match_score >= 50
                THEN /\ Cardinality(FuzzyHits(p)) = 1
                     /\ \A k \in FuzzyHits(p) :
                           /\ attribute_candidates[k].similarity_score = p.match_score
                           /\ attribute_candidates[k].confidence = p.match_score
                ELSE FuzzyHits(p) = {}

\* C12 witness: one pair scored exactly 0.5 and was emitted, another scored
\* 0.45 and was not
C12_Witness ==
    /\ Detected
    /\ \E n, m \in 1..Len(fuzzy_pairs) :
          /\ fuzzy_pairs[n].match_score = 50
          /\ Cardinality(FuzzyHits(fuzzy_pairs[n])) = 1
          /\ fuzzy_pairs[m].match_score = 45
          /\ FuzzyHits(fuzzy_pairs[m]) = {}

\* the weights of attribute_weights that _find_by_fuzzy_attributes never reads
model_number_weight == 20
upc_weight == 30
ean_weight == 30
color_weight == 10
material_weight == 5

\* the attributes compared by exact match, with their weights
ExactAttributes ==
    [a \in {"model_number", "upc", "ean", "color", "material"} |->
        CASE a = "model_number" -> model_number_weight
          [] a = "upc" -> upc_weight
          [] a = "ean" -> ean_weight
          [] a = "color" -> color_weight
          [] a = "material" -> material_weight]

\* the value of an exact-match attribute, case-insensitive and trimmed
ExactValue(row, a) == IF a \in {"color", "material"} THEN text_lower(row[a]) ELSE row[a]

\* the weights of the exact-match attributes present in both rows and equal
ExactWeights(i, j) ==
    Sum([k \in 1..5 |->
            LET a == <<"model_number", "upc", "ean", "color", "material">>[k]
            IN  IF /\ notna(Catalog[i], a)
                   /\ notna(Catalog[j], a)
                   /\ ExactValue(Catalog[i], a) = ExactValue(Catalog[j], a)
                THEN ExactAttributes[a] ELSE 0])

\* the weight a key of matches adds when the pair matched on it
MatchWeight(p, key, weight) ==
    IF key \in DOMAIN p.matches /\ p.matches[key] THEN weight ELSE 0

\* the name bonus of a pair of rows
NameBonus(i, j) ==
    IF /\ notna(Catalog[i], "product_name")
       /\ notna(Catalog[j], "product_name")
       /\ NameSimilar(_calculate_name_similarity(Catalog[i]["product_name"],
                                                 Catalog[j]["product_name"]))
    THEN name_bonus ELSE 0

\* C13: the fuzzy score of a pair is the sum of the weights of all eight
\* weighted attributes that match: brand, size and price as matched, equal
\* model_number, upc, ean, color and material values each adding their weight,
\* plus 0.2 when the name similarity exceeds 0.8.
C13_AllWeightsSummed ==
    Detected =>
        \A n \in 1..Len(fuzzy_pairs) :
            LET p == fuzzy_pairs[n]
            IN  p.match_score = MatchWeight(p, "brand", brand_weight)
                                + MatchWeight(p, "size", size_weight)
                                + MatchWeight(p, "price", price_weight)
                                + ExactWeights(p.i, p.j)
                                + NameBonus(p.i, p.j)

\* C14: the size match between "16 oz" and "473 ml" is true.
C14_SixteenOzMatches ==
    Detected =>
        \A n \in 1..Len(fuzzy_pairs) :
            LET p == fuzzy_pairs[n]
            IN  /\ notna(Catalog[p.i], "size")
                /\ notna(Catalog[p.j], "size")
                /\ Catalog[p.i]["size"] = "16 oz"
                /\ Catalog[p.j]["size"] = "473 ml"
                => p.matches["size"]

\* the normalized brand of a row of the catalog after the call
Brand(i) == products_df.rows[i]["brand_name_normalized"]

\* C15: brand matching is true exactly when the two normalized brands are
\* equal, or both belong to one variation list, or one is a substring of the
\* other.
C15_BrandMatch ==
    Detected =>
        \A n \in 1..Len(fuzzy_pairs) :
            LET p == fuzzy_pairs[n]
            IN  "brand" \in DOMAIN p.matches =>
                    p.matches["brand"]
                        = \/ Brand(p.i) = Brand(p.j)
                          \/ \E variations \in brand_variations :
                                {Brand(p.i), Brand(p.j)} \subseteq variations
                          \/ \E k \in 0..Len(Brand(p.j)) : \E l \in k..Len(Brand(p.j)) :
                                Brand(p.i) = SubSeq(Brand(p.j), k + 1, l)
                          \/ \E k \in 0..Len(Brand(p.i)) : \E l \in k..Len(Brand(p.i)) :
                                Brand(p.j) = SubSeq(Brand(p.i), k + 1, l)

\* C15 witness: "sony" matched "sony corporation", a brand matched another one
\* only as its substring, two brands matched only through a variation list,
\* and two brands did not match
C15_Witness ==
    /\ Detected
    /\ \E n \in 1..Len(fuzzy_pairs) :
          /\ Brand(fuzzy_pairs[n].i) = <<"s", "o", "n", "y">>
          /\ Brand(fuzzy_pairs[n].j) = str_lower(<<"S", "O", "N", "Y", " ", "C", "O", "R", "P", "O", "R", "A", "T", "I", "O", "N">>)
          /\ fuzzy_pairs[n].matches["brand"]
    /\ \E n \in 1..Len(fuzzy_pairs) :
          /\ ~ (\E variations \in brand_variations :
                   {Brand(fuzzy_pairs[n].i), Brand(fuzzy_pairs[n].j)} \subseteq variations)
          /\ Brand(fuzzy_pairs[n].i) # <<>>
          /\ Brand(fuzzy_pairs[n].j) # <<>>
          /\ fuzzy_pairs[n].matches["brand"]
    /\ \E n \in 1..Len(fuzzy_pairs) : ~ fuzzy_pairs[n].matches["brand"]

\* C16: when at least one product of a pair has no brand_name value,
\* matching_attributes['brand'] is false and the brand weight is not added.
C16_MissingBrandNoMatch ==
    Detected =>
        \A n \in 1..Len(fuzzy_pairs) :
            LET p == fuzzy_pairs[n]
            IN  /\ "brand" \in DOMAIN p.matches
                /\ ~ (notna(Catalog[p.i], "brand_name") /\ notna(Catalog[p.j], "brand_name"))
                => /\ ~ p.matches["brand"]
                   /\ p.match_score = MatchWeight(p, "size", size_weight)
                                      + MatchWeight(p, "price", price_weight)
                                      + NameBonus(p.i, p.j)

\* C17: the price match is true exactly when both prices are strictly
\* positive and |p1 - p2| / max(p1, p2) <= tolerance.
C17_PriceMatch ==
    Detected =>
        \A n \in 1..Len(fuzzy_pairs) :
            LET p == fuzzy_pairs[n]
                price1 == Catalog[p.i]["price"]
                price2 == Catalog[p.j]["price"]
            IN  /\ "price" \in DOMAIN p.matches
                /\ notna(Catalog[p.i], "price")
                /\ notna(Catalog[p.j], "price")
                => p.matches["price"]
                       = /\ price1 > 0
                         /\ price2 > 0
                         /\ 100 * Abs(price1 - price2)
                                <= 10 * (IF price1 >= price2 THEN price1 ELSE price2)

\* C18: after the call the products table of the caller has the same columns
\* and the same values as before the call.
C18_CatalogNotMutated == Detected => products_df = products_before

\* the cosine similarity of two vectors exceeds a threshold in hundredths
CosineExceeds(u, v, threshold) ==
    LET Dot(a, b) == Sum([k \in 1..Len(a) |-> a[k] * b[k]])
    IN  /\ Dot(u, v) > 0
        /\ 10000 * Dot(u, v) * Dot(u, v) > threshold * threshold * Dot(u, u) * Dot(v, v)

\* C19: the embedding strategy emits a candidate for every pair of SKUs whose
\* cosine similarity exceeds the threshold, and these candidates are among
\* those detect_duplicates_multi_strategy merges.
C19_EmbeddingCandidates ==
    Detected =>
        \A p \in RowPairs :
            CosineExceeds(embeddings_df[p[1]], embeddings_df[p[2]], similarity_threshold)
                => \E k \in 1..Len(embedding_candidates) :
                      /\ Pair(embedding_candidates[k]) = {Catalog[p[1]].sku, Catalog[p[2]].sku}
                      /\ embedding_candidates[k] \in SeqRange(candidates)

\* the catalog of the scenario: A1, A2 and B1, in any order
ScenarioCatalog ==
    /\ Len(Catalog) = 3
    /\ {Catalog[i].sku : i \in 1..3} = {"A1", "A2", "B1"}

\* C20: for the catalog A1 (upc 999, Nike, 50), A2 (upc 999, Nike Inc, 52),
\* B1 (Adidas, 80), detection yields exactly one merged record, for the pair
\* (A1, A2), with confidence 1.0; grouping at min_confidence 0.85 yields exactly
\* the group {A1, A2}, so B1 is in no group; and the merge recommendation for
\* that group averages the price to 51.
C20_Scenario ==
    ScenarioCatalog =>
        /\ Detected =>
              /\ Len(final_candidates) = 1
              /\ Pair(final_candidates[1]) = {"A1", "A2"}
              /\ final_candidates[1].confidence = 100
        /\ pc \in {"grouped", "recommended"} /\ min_confidence = 85 =>
              /\ groups = <<{"A1", "A2"}>>
              /\ \A g \in 1..Len(groups) : "B1" \notin groups[g]
        /\ pc = "recommended" /\ min_confidence = 85 =>
              /\ recommendation.merged_skus \in {<<"A1", "A2">>, <<"A2", "A1">>}
              /\ recommendation.merged_attributes["price"].num
                    = 51 * recommendation.merged_attributes["price"].den

\* C20 witness: the recommendation for the group of the scenario was made
C20_Witness ==
    /\ ScenarioCatalog
    /\ pc = "recommended"
    /\ min_confidence = 85
    /\ Len(final_candidates) = 1
    /\ recommendation.merged_attributes["price"] = [num |-> 102, den |-> 2]

----------------------------------------------------------------------------
(* Properties of the merge recommendation *)

\* a recommendation was returned
Recommended == pc = "recommended" /\ recommendation.raised = ""

\* the products the recommendation was made for, in input order
Members ==
    SelectSeq(Catalog, LAMBDA p : p.sku \in SeqRange(recommendation.merged_skus))

\* the number of fields of a product whose value is non-null and non-blank
Filled(p) ==
    Cardinality({k \in DOMAIN p :
        /\ k = "inventory_count" => ~ p[k].none
        /\ k \in {"color", "material"} => p[k] \notin {"", " "}})

\* C21: primary_sku is the SKU of a member with the maximum completeness
\* score, and of the first such member in input order.
C21_PrimaryMostComplete ==
    Recommended =>
        \E n \in 1..Len(Members) :
            /\ recommendation.primary_sku = Members[n].sku
            /\ \A m \in 1..Len(Members) : Filled(Members[m]) <= Filled(Members[n])
            /\ \A m \in 1..(n - 1) : Filled(Members[m]) # Filled(Members[n])

\* C21 witness: the second and third member tie for the maximum, above the
\* first, and the second is the primary
C21_Witness ==
    /\ Recommended
    /\ Len(Members) = 3
    /\ Filled(Members[1]) < Filled(Members[2])
    /\ Filled(Members[2]) = Filled(Members[3])
    /\ recommendation.primary_sku = Members[2].sku

\* the members that hold a value under a key
Holders(key) == {n \in 1..Len(Members) : key \in DOMAIN Members[n]}

\* how many members hold the value v under a key
Frequency(key, v) == Cardinality({n \in Holders(key) : Members[n][key] = v})

\* v is a most frequent value under a key
MostFrequent(key, v) ==
    /\ \E n \in Holders(key) : Members[n][key] = v
    /\ \A n \in Holders(key) : Frequency(key, Members[n][key]) <= Frequency(key, v)

\* the primary record of the recommendation
Primary == CHOOSE p \in SeqRange(Members) : p.sku = recommendation.primary_sku

\* C22: each non-price merged attribute is a most frequent non-null value
\* among the members, and the primary record's own value when that is among
\* the most frequent ones.
C22_MostCommonPrefersPrimary ==
    Recommended =>
        \A key \in DOMAIN recommendation.merged_attributes \ {"price"} :
            /\ MostFrequent(key, recommendation.merged_attributes[key])
            /\ MostFrequent(key, Primary[key])
                  => recommendation.merged_attributes[key] = Primary[key]

\* the inventory_count of a product, 0 when the key is missing or the value null
InventoryOrZero(p) ==
    IF "inventory_count" \in DOMAIN p /\ ~ p["inventory_count"].none
    THEN p["inventory_count"].v ELSE 0

\* the products of the group the recommendation was asked for
Asked(g) == SelectSeq(Catalog, LAMBDA p : p.sku \in groups[g])

\* C23: the recommendation does not fail, and total_inventory is the sum of
\* inventory_count over the members, an absent one counting 0.
C23_InventorySum ==
    pc = "recommended" =>
        /\ recommendation.raised = ""
        /\ \E g \in 1..Len(groups) :
              recommendation.total_inventory
                  = Sum([n \in 1..Len(Asked(g)) |-> InventoryOrZero(Asked(g)[n])])

----------------------------------------------------------------------------
(* detect_duplicate_products (vector_engine.py).  The embedding table holds *)
(* the SKUs of the catalog with their embeddings; the query is modelled by  *)
(* what its SQL computes.                                                   *)

\* similarity_threshold default of detect_duplicate_products, in hundredths
default_vector_threshold == 95

VectorThresholds == {default_vector_threshold, 99}

\* 1 - ML.DISTANCE(e1, e2, 'COSINE'), rounded to hundredths
CosineSimilarity(u, v) ==
    LET Dot(a, b) == Sum([k \in 1..Len(a) |-> a[k] * b[k]])
    IN  IF Dot(u, v) <= 0 THEN 0
        ELSE CHOOSE c \in 0..100 :
                /\ (2 * c - 1) * (2 * c - 1) * Dot(u, u) * Dot(v, v)
                       <= 40000 * Dot(u, v) * Dot(u, v)
                /\ c < 100 => 40000 * Dot(u, v) * Dot(u, v)
                                  < (2 * c + 1) * (2 * c + 1) * Dot(u, u) * Dot(v, v)

\* the rows of product_pairs: the join ON p1.sku < p2.sku, WHERE the cosine
\* distance is below 1 - similarity_threshold
product_pairs(df, embeddings, threshold) ==
    {[sku1 |-> df.rows[i].sku, sku2 |-> df.rows[j].sku,
      similarity |-> CosineSimilarity(embeddings[i], embeddings[j])] :
        <<i, j>> \in {p \in (1..Len(df.rows)) \X (1..Len(df.rows)) :
                        /\ SkuRank(df.rows[p[1]].sku) < SkuRank(df.rows[p[2]].sku)
                        /\ CosineExceeds(embeddings[p[1]], embeddings[p[2]], threshold)}}

\* LEAST(sku1, sku2)
Least(pair) == IF SkuRank(pair.sku1) <= SkuRank(pair.sku2) THEN pair.sku1 ELSE pair.sku2

\* DENSE_RANK() OVER (ORDER BY LEAST(sku1, sku2)) of a row of product_pairs
group_id(pair, pairs) ==
    Cardinality({SkuRank(Least(q)) : q \in {r \in pairs : SkuRank(Least(r)) <= SkuRank(Least(pair))}})

\* groups[group_id]['products'] of the grouping loop
VectorGroupSkus(pairs, id) ==
    UNION {{q.sku1, q.sku2} : q \in {r \in pairs : group_id(r, pairs) = id}}

RECURSIVE SetSum(_, _)
\* the sum of f over a set
SetSum(S, f) ==
    IF S = {} THEN 0
    ELSE LET x == CHOOSE y \in S : TRUE IN f[x] + SetSum(S \ {x}, f)

\* np.mean(group_data['similarities'])
VectorGroupConfidence(pairs, id) ==
    LET rows == {r \in pairs : group_id(r, pairs) = id}
    IN  [num |-> SetSum(rows, [r \in rows |-> r.similarity]), den |-> Cardinality(rows)]

\* _get_product_details: the rows of the products table with these SKUs
ProductDetails(df, skus) == SelectSeq(df.rows, LAMBDA p : p.sku \in skus)

RECURSIVE PickLists(_)
\* one choice of most frequent values for each list of products
PickLists(lists) ==
    IF lists = <<>> THEN {<<>>}
    ELSE {<<pick>> \o rest : pick \in Picks(Head(lists)), rest \in PickLists(Tail(lists))}

\* the DuplicateGroup objects in group_id order, given the rows of the query
DuplicateGroups(df, pairs, picks) ==
    [id \in 1..Cardinality({group_id(r, pairs) : r \in pairs}) |->
        [group_id |-> id,
         products |-> ProductDetails(df, VectorGroupSkus(pairs, id)),
         confidence_score |-> VectorGroupConfidence(pairs, id),
         merge_recommendation |->
            _create_merge_recommendation(
                ProductDetails(df, VectorGroupSkus(pairs, id)), picks[id])]]

\* the lists of DuplicateGroup objects the grouping loop can build from the
\* rows of the query, one for each choice of most frequent values
DuplicateGroupLists(df, embeddings, threshold) ==
    LET pairs == product_pairs(df, embeddings, threshold)
        ids == 1..Cardinality({group_id(r, pairs) : r \in pairs})
        details == [id \in ids |-> ProductDetails(df, VectorGroupSkus(pairs, id))]
    IN  {DuplicateGroups(df, pairs, picks) : picks \in PickLists(details)}

\* detect_duplicate_products: [] when the query fails with GoogleCloudError,
\* the TypeError of a merge recommendation propagates
detect_duplicate_products(threshold, query_ok) ==
    /\ pc = "loaded"
    /\ similarity_threshold' = threshold
    /\ IF ~ query_ok
       THEN duplicate_groups' = [raised |-> "", groups |-> <<>>]
       ELSE \E result \in DuplicateGroupLists(products_df, embeddings_df, threshold) :
               duplicate_groups' =
                  IF \E id \in DOMAIN result : result[id].merge_recommendation.raised # ""
                  THEN [raised |-> "TypeError"]
                  ELSE [raised |-> "", groups |-> result]
    /\ pc' = "vector_grouped"
    /\ UNCHANGED <<side_vars, candidates, final_candidates, group_input, min_confidence, groups,
                   products_df, products_before, embeddings_df,
                   embedding_candidates, identifier_candidates, attribute_candidates,
                   pattern_candidates, fuzzy_pairs, recommendation>>

VectorNext ==
    \E threshold \in VectorThresholds : \E query_ok \in BOOLEAN :
        detect_duplicate_products(threshold, query_ok)

VectorSpec == CatalogInit /\ [][VectorNext]_vars

----------------------------------------------------------------------------
(* _match_size called on two sizes, in both argument orders *)

\* the size arguments: the strings of the tables and the empty string
Sizes == DOMAIN size_lower \cup {""}

SizeInit ==
    /\ size_args \in [size1 : Sizes, size2 : Sizes]
    /\ size_matches = <<>>
    /\ candidates = <<>>
    /\ final_candidates = <<>>
    /\ group_input = <<>>
    /\ min_confidence = default_min_confidence
    /\ groups = <<>>
    /\ pc = "sizes"
    /\ NoCatalog
    /\ NoTraversal
    /\ NoEngine

\* self._match_size(size1, size2) and self._match_size(size2, size1)
MatchSizes ==
    /\ pc = "sizes"
    /\ size_matches' = [forward |-> _match_size(size_args.size1, size_args.size2),
                        backward |-> _match_size(size_args.size2, size_args.size1)]
    /\ pc' = "sizes_matched"
    /\ UNCHANGED <<candidates, final_candidates, group_input, min_confidence, groups,
                   catalog_vars, size_args, engine_vars, dfs_graph, dfs_nodes,
                   dfs_node_index, dfs_visited, dfs_group, dfs_stack, dfs_added>>

SizeNext == MatchSizes

SizeSpec == SizeInit /\ [][SizeNext]_vars

----------------------------------------------------------------------------
(* group_duplicates step by step: the for loop over graph and the recursive *)
(* dfs, whose call stack is dfs_stack.  A frame holds its node, whether the *)
(* guard has been passed, and the neighbours the inner for loop has still   *)
(* to take; a set is iterated in an order the model leaves open.            *)

\* the candidate lists group_duplicates is stepped through on
TraversalInputs ==
    UNION {[1..n -> CandidateUniverse \cup {IdentifierCandidate("C", "A")}] :
              n \in 0..MaxCandidates}

\* the nested dfs calls the interpreter allows: a call beyond them raises
\* RecursionError.  CPython allows sys.getrecursionlimit() = 1000 frames, the
\* callers' included; the depth is scaled to the graphs of TraversalInputs.
MaxDfsDepth == 4

\* if node in visited: return / visited.add(node) / group.add(node)
EnterNode(node, visited, group) ==
    [return |-> node \in visited,
     visited |-> visited \cup {node},
     group |-> group \cup {node}]

TraversalInit ==
    /\ group_input = <<>>
    /\ min_confidence = default_min_confidence
    /\ candidates = <<>>
    /\ final_candidates = <<>>
    /\ groups = <<>>
    /\ pc = "call"
    /\ NoCatalog
    /\ size_args = <<>>
    /\ size_matches = <<>>
    /\ NoTraversal
    /\ NoEngine

\* group_duplicates(candidates, min_confidence) is called: high_confidence,
\* graph (its keys in insertion order in dfs_nodes), visited = set(),
\* groups = []
CallGroupDuplicates(cands, mc) ==
    /\ pc = "call"
    /\ group_input' = cands
    /\ min_confidence' = mc
    /\ dfs_graph' = Graph(HighConfidence(cands, mc))
    /\ dfs_nodes' = GraphNodes(HighConfidence(cands, mc))
    /\ pc' = "for_node"
    /\ UNCHANGED <<candidates, final_candidates, groups, catalog_vars,
                   size_args, size_matches, engine_vars,
                   dfs_node_index, dfs_visited, dfs_group, dfs_stack, dfs_added>>

\* for node in graph: if node not in visited: group = set(); dfs(node, group)
ForNode ==
    /\ pc = "for_node"
    /\ dfs_node_index <= Len(dfs_nodes)
    /\ IF dfs_nodes[dfs_node_index] \in dfs_visited
       THEN /\ dfs_node_index' = dfs_node_index + 1
            /\ UNCHANGED <<dfs_group, dfs_stack, pc>>
       ELSE /\ dfs_group' = {}
            /\ dfs_stack' = <<[node |-> dfs_nodes[dfs_node_index],
                               entered |-> FALSE, todo |-> {}]>>
            /\ pc' = "dfs"
            /\ UNCHANGED dfs_node_index
    /\ UNCHANGED <<candidates, final_candidates, group_input, min_confidence, groups,
                   catalog_vars, size_args, size_matches, engine_vars, dfs_graph, dfs_nodes, dfs_visited, dfs_added>>

\* the head of dfs: return at a visited node, else add it to visited and group
DfsEnter ==
    /\ pc = "dfs"
    /\ dfs_stack # <<>>
    /\ ~ dfs_stack[Len(dfs_stack)].entered
    /\ LET top == dfs_stack[Len(dfs_stack)]
           r == EnterNode(top.node, dfs_visited, dfs_group)
       IN  IF r.return
           THEN /\ dfs_stack' = SubSeq(dfs_stack, 1, Len(dfs_stack) - 1)
                /\ UNCHANGED <<dfs_visited, dfs_group, dfs_added>>
           ELSE /\ dfs_visited' = r.visited
                /\ dfs_group' = r.group
                /\ dfs_added' = IF r.visited = dfs_visited THEN dfs_added
                                ELSE Append(dfs_added, top.node)
                /\ dfs_stack' = [dfs_stack EXCEPT ![Len(dfs_stack)] =
                                    [node |-> top.node, entered |-> TRUE,
                                     todo |-> dfs_graph[top.node]]]
    /\ UNCHANGED <<candidates, final_candidates, group_input, min_confidence, groups,
                   pc, catalog_vars, size_args, size_matches, engine_vars, dfs_graph, dfs_nodes, dfs_node_index>>

\* for neighbor in graph[node]: dfs(neighbor, group); the call raises
\* RecursionError, which nothing in group_duplicates catches, when the stack
\* of dfs calls is as deep as the interpreter allows
DfsNeighbor ==
    /\ pc = "dfs"
    /\ dfs_stack # <<>>
    /\ dfs_stack[Len(dfs_stack)].entered
    /\ \E neighbor \in dfs_stack[Len(dfs_stack)].todo :
          IF Len(dfs_stack) < MaxDfsDepth
          THEN /\ dfs_stack' =
                     Append([dfs_stack EXCEPT ![Len(dfs_stack)].todo = @ \ {neighbor}],
                            [node |-> neighbor, entered |-> FALSE, todo |-> {}])
               /\ UNCHANGED pc
          ELSE /\ pc' = "RecursionError"
               /\ UNCHANGED dfs_stack
    /\ UNCHANGED <<candidates, final_candidates, group_input, min_confidence, groups,
                   catalog_vars, size_args, size_matches, engine_vars, dfs_graph, dfs_nodes,
                   dfs_node_index, dfs_visited, dfs_group, dfs_added>>

\* the end of the inner for loop: dfs returns to its caller
DfsReturn ==
    /\ pc = "dfs"
    /\ dfs_stack # <<>>
    /\ dfs_stack[Len(dfs_stack)].entered
    /\ dfs_stack[Len(dfs_stack)].todo = {}
    /\ dfs_stack' = SubSeq(dfs_stack, 1, Len(dfs_stack) - 1)
    /\ UNCHANGED <<candidates, final_candidates, group_input, min_confidence, groups,
                   pc, catalog_vars, size_args, size_matches, engine_vars, dfs_graph, dfs_nodes,
                   dfs_node_index, dfs_visited, dfs_group, dfs_added>>

\* groups.append(group), back in the for loop over graph
AppendGroup ==
    /\ pc = "dfs"
    /\ dfs_stack = <<>>
    /\ groups' = Append(groups, dfs_group)
    /\ dfs_node_index' = dfs_node_index + 1
    /\ pc' = "for_node"
    /\ UNCHANGED <<candidates, final_candidates, group_input, min_confidence,
                   catalog_vars, size_args, size_matches, engine_vars, dfs_graph, dfs_nodes,
                   dfs_visited, dfs_group, dfs_stack, dfs_added>>

\* return groups
ReturnGroups ==
    /\ pc = "for_node"
    /\ dfs_node_index > Len(dfs_nodes)
    /\ pc' = "returned"
    /\ UNCHANGED <<candidates, final_candidates, group_input, min_confidence, groups,
                   catalog_vars, side_vars>>

\* a step of the call, once made
TraversalStep ==
    \/ ForNode
    \/ DfsEnter
    \/ DfsNeighbor
    \/ DfsReturn
    \/ AppendGroup
    \/ ReturnGroups

TraversalNext ==
    \/ \E cands \in TraversalInputs : \E mc \in MinConfidences :
          CallGroupDuplicates(cands, mc)
    \/ TraversalStep

TraversalSpec == TraversalInit /\ [][TraversalNext]_vars

\* the call runs on one thread, which keeps taking its next step
TraversalFairSpec == TraversalSpec /\ WF_vars(TraversalStep)

----------------------------------------------------------------------------
(* get_vector_engine: the module-level engine instance.  engines holds the *)
(* BigQueryVectorEngine objects constructed so far, an engine is referred  *)
(* to by its place in engines, and engine_calls records each call with its *)
(* arguments and what it returned (None when the constructor raised).      *)

MaxCalls == 3

ProjectIds == {"p1", "p2"}

DatasetIds == {"d1", "d2"}

\* a reference to the object engines[i]
EngineRef(i) == [none |-> FALSE, v |-> i]

\* BigQueryVectorEngine.__init__: the fields the arguments are stored in
BigQueryVectorEngine(project_id, dataset_id) ==
    [project_id |-> project_id,
     dataset_id |-> dataset_id,
     dataset_ref |-> <<project_id, ".", dataset_id>>]

\* faulty variant: an engine is constructed on every call
NeedsEngine_always(instance) == TRUE

\* if _vector_engine_instance is None
NeedsEngine(instance) == instance = None

EngineInit ==
    /\ candidates = <<>>
    /\ final_candidates = <<>>
    /\ group_input = <<>>
    /\ min_confidence = default_min_confidence
    /\ groups = <<>>
    /\ pc = "engine"
    /\ NoCatalog
    /\ NoSide

\* get_vector_engine(project_id, dataset_id); client_ok is whether
\* bigquery.Client(project=project_id) in the constructor returns or raises
get_vector_engine(project_id, dataset_id, client_ok) ==
    /\ pc = "engine"
    /\ Len(engine_calls) < MaxCalls
    /\ IF NeedsEngine(_vector_engine_instance)
       THEN IF client_ok
            THEN /\ engines' = Append(engines,
                                      BigQueryVectorEngine(project_id, dataset_id))
                 /\ _vector_engine_instance' = EngineRef(Len(engines) + 1)
                 /\ engine_calls' =
                        Append(engine_calls,
                               [project_id |-> project_id, dataset_id |-> dataset_id,
                                returned |-> EngineRef(Len(engines) + 1)])
            ELSE /\ engine_calls' =
                        Append(engine_calls,
                               [project_id |-> project_id, dataset_id |-> dataset_id,
                                returned |-> None])
                 /\ UNCHANGED <<engines, _vector_engine_instance>>
       ELSE /\ engine_calls' =
                   Append(engine_calls,
                          [project_id |-> project_id, dataset_id |-> dataset_id,
                           returned |-> _vector_engine_instance])
            /\ UNCHANGED <<engines, _vector_engine_instance>>
    /\ UNCHANGED <<candidates, final_candidates, group_input, min_confidence, groups,
                   pc, catalog_vars, size_args, size_matches, dfs_graph, dfs_nodes,
                   dfs_node_index, dfs_visited, dfs_group, dfs_stack, dfs_added>>

EngineNext ==
    \E project_id \in ProjectIds : \E dataset_id \in DatasetIds :
        \E client_ok \in BOOLEAN :
            get_vector_engine(project_id, dataset_id, client_ok)

EngineSpec == EngineInit /\ [][EngineNext]_vars

----------------------------------------------------------------------------
(* Claims on the vector engine and on single functions *)

\* the call has returned a list of groups
VectorGrouped == pc = "vector_grouped" /\ duplicate_groups.raised = ""

\* the SKUs of the products of a returned group
GroupSkus(g) == {g.products[n].sku : n \in 1..Len(g.products)}

\* C24: no SKU appears in the product set of two different groups returned by
\* detect_duplicate_products.
C24_VectorGroupsDisjoint ==
    VectorGrouped =>
        \A g, h \in 1..Len(duplicate_groups.groups) :
            g # h => GroupSkus(duplicate_groups.groups[g])
                         \cap GroupSkus(duplicate_groups.groups[h]) = {}

\* the name-pattern candidates for a pair of rows
NamePatternHits(i, j) ==
    {k \in 1..Len(pattern_candidates) :
        /\ Pair(pattern_candidates[k]) = {Catalog[i].sku, Catalog[j].sku}
        /\ pattern_candidates[k].reason = NamePatternReason}

\* C25: in a catalog that has a product_name column, two products that both
\* lack a product_name value yield no 'Similar name pattern' candidate.
C25_MissingNameNoPattern ==
    Detected /\ "product_name" \in products_before.columns =>
        \A p \in RowPairs :
            /\ ~ notna(Catalog[p[1]], "product_name")
            /\ ~ notna(Catalog[p[2]], "product_name")
            => NamePatternHits(p[1], p[2]) = {}

\* the pair of the loop a fuzzy candidate was appended for
FuzzyPairOf(k) ==
    CHOOSE p \in SeqRange(fuzzy_pairs) : k \in FuzzyHits(p)

\* C26: every candidate of the fuzzy strategy has a brand match, a name
\* similarity above 0.8 and a size match or a price match; no pair without a
\* brand match or without a similar name reaches 0.5; every emitted score is
\* 0.50, 0.60 or 0.65.
C26_FuzzyNeedsBrandAndName ==
    Detected =>
        /\ \A k \in 1..Len(attribute_candidates) :
              LET c == attribute_candidates[k]
                  p == FuzzyPairOf(k)
              IN  /\ MatchWeight(p, "brand", brand_weight) = brand_weight
                  /\ NameBonus(p.i, p.j) = name_bonus
                  /\ MatchWeight(p, "size", size_weight)
                         + MatchWeight(p, "price", price_weight) > 0
                  /\ c.similarity_score \in {50, 60, 65}
        /\ \A n \in 1..Len(fuzzy_pairs) :
              LET p == fuzzy_pairs[n]
              IN  \/ MatchWeight(p, "brand", brand_weight) = 0
                  \/ NameBonus(p.i, p.j) = 0
                  => p.match_score < 50 /\ FuzzyHits(p) = {}

\* C26 witness: candidates were emitted for a pair matching on brand, price
\* and name at 0.50 and for a pair matching also on size at 0.60 or 0.65,
\* and a pair matching on brand, size and price without a similar name, or
\* on size, price and name without the brand, was not emitted
C26_Witness ==
    /\ Detected
    /\ \E k, l \in 1..Len(attribute_candidates) :
          /\ attribute_candidates[k].similarity_score = 50
          /\ attribute_candidates[l].similarity_score \in {60, 65}
    /\ \E n \in 1..Len(fuzzy_pairs) :
          /\ fuzzy_pairs[n].match_score \in {40, 45}
          /\ FuzzyHits(fuzzy_pairs[n]) = {}

\* every candidate behind merged record r came from the strategy giving reason why
SupportedOnlyBy(r, why) ==
    \A i \in Evidence(r) : candidates[i].reason = why

\* the merged list was grouped at the default min_confidence
GroupedMergedAtDefault ==
    /\ Grouped
    /\ final_candidates # <<>>
    /\ group_input = final_candidates
    /\ min_confidence = default_min_confidence

\* C27: the boost counts the first reason too: every merged record's confidence
\* is at least min(similarity_score + 0.1, 1.0); a pair supported only by the
\* name pattern (0.80) has confidence 0.90 and its SKUs share a group at the
\* default min_confidence 0.85; a pair supported only by the fuzzy strategy
\* has at most 0.75 and is no link at that default.
C27_SingleReasonBoosted ==
    \A j \in 1..Len(final_candidates) :
        LET r == final_candidates[j]
        IN  /\ r.confidence >= Min2(r.similarity_score + 10, 100)
            /\ SupportedOnlyBy(r, "Similar name pattern") =>
                  /\ r.similarity_score = 80
                  /\ r.confidence = 90
                  /\ GroupedMergedAtDefault =>
                        \E g \in 1..Len(groups) : Pair(r) \subseteq groups[g]
            /\ SupportedOnlyBy(r, "Fuzzy attribute matching") =>
                  /\ r.confidence <= 75
                  /\ GroupedMergedAtDefault =>
                        /\ j \notin Surviving
                        /\ ~ Linked(r.sku1, r.sku2)

\* C27 witness: grouped at the default, a pair with the name pattern as its
\* one reason is in a group and a pair with the fuzzy strategy as its one
\* reason has a SKU outside every group
C27_Witness ==
    /\ GroupedMergedAtDefault
    /\ \E j, k \in 1..Len(final_candidates) :
          /\ SupportedOnlyBy(final_candidates[j], "Similar name pattern")
          /\ \E g \in 1..Len(groups) : Pair(final_candidates[j]) \subseteq groups[g]
          /\ SupportedOnlyBy(final_candidates[k], "Fuzzy attribute matching")
          /\ \E x \in Pair(final_candidates[k]) :
                \A g \in 1..Len(groups) : x \notin groups[g]

\* C28: _match_size is symmetric: _match_size(a, b) = _match_size(b, a) for
\* all sizes, those compared through a unit conversion included.
C28_MatchSizeSymmetric ==
    pc = "sizes_matched" => size_matches.forward = size_matches.backward

\* group_duplicates has been called
TraversalCalled == pc \in {"for_node", "dfs"}

\* group_duplicates has returned
TraversalReturned == pc = "returned"

\* the groups of the returned list that hold SKU x
GroupsHolding(x) == {g \in 1..Len(groups) : x \in groups[g]}

\* no SKU was added to visited twice, the calls that passed the guard are
\* those additions, and at the return every SKU with a surviving edge is in
\* exactly one group of the list, the list of group_duplicates
TraversalSafe ==
    /\ \A i, j \in 1..Len(dfs_added) : i # j => dfs_added[i] # dfs_added[j]
    /\ SeqRange(dfs_added) = dfs_visited
    /\ \A i, j \in 1..Len(dfs_stack) :
          i # j /\ dfs_stack[i].entered /\ dfs_stack[j].entered
              => dfs_stack[i].node # dfs_stack[j].node
    /\ Len(dfs_stack) <= Len(dfs_nodes) + 1
    /\ TraversalReturned =>
          /\ \A x \in Endpoints : Cardinality(GroupsHolding(x)) = 1
          /\ groups = group_duplicates(group_input, min_confidence)

\* C29: group_duplicates terminates on every candidate list, cycles and
\* self-pairs included: it always returns, no SKU is added to visited twice,
\* no visited SKU is explored again, and every SKU with a surviving edge is
\* in exactly one returned group.
C29_TraversalTerminates ==
    /\ []TraversalSafe
    /\ TraversalCalled ~> TraversalReturned

\* the calls of get_vector_engine that returned an engine
ReturnedCalls == {i \in 1..Len(engine_calls) : engine_calls[i].returned # None}

\* the first call that returned
FirstReturned == CHOOSE f \in ReturnedCalls : \A i \in ReturnedCalls : f <= i

\* C30: every call of get_vector_engine that returns, returns the one engine
\* constructed by the first of them, whatever project_id and dataset_id the
\* later calls pass: no second engine is constructed and the engine keeps
\* the project_id and dataset_id of the call that constructed it.
C30_SingleEngine ==
    /\ Len(engines) <= 1
    /\ \A i \in ReturnedCalls :
          /\ engine_calls[i].returned = engine_calls[FirstReturned].returned
          /\ engine_calls[i].returned = _vector_engine_instance
          /\ engines[engine_calls[i].returned.v].project_id =
                 engine_calls[FirstReturned].project_id
          /\ engines[engine_calls[i].returned.v].dataset_id =
                 engine_calls[FirstReturned].dataset_id

\* C30 witness: a call returned an engine and a later call, with another
\* project_id and another dataset_id, returned as well
C30_Witness ==
    \E i, j \in ReturnedCalls :
        /\ i < j
        /\ engine_calls[i].project_id # engine_calls[j].project_id
        /\ engine_calls[i].dataset_id # engine_calls[j].dataset_id

============================================================================
